---- MODULE Spec2Model ----
(***************************************************************************)
(* State-machine model of the website interaction agent:                   *)
(*   sully_utils.py               WebsiteInteractionAgent                  *)
(*   website_interaction_tools.py tool_answer_user_query, tool_wait,       *)
(*                                tool_click_web_element                   *)
(* Python strings are sequences of one-character strings, so that          *)
(* formatting, joining and parsing are computed and not assumed.           *)
(***************************************************************************)
EXTENDS Integers, Sequences, FiniteSets, TLC

VARIABLES
    doc,        \* identity of the document loaded in the browser tab
    elems,      \* interactive elements of the loaded page, in DOM order
    markers,    \* marker nodes currently attached to document.body
    rects,      \* self.rects ([has |-> FALSE] when the attribute is absent)
    ret,        \* what the last get_web_element_rect call returned
    state,      \* self.session_service.state
    config,     \* self.config
    pc,         \* position of run(): idle when no run is in progress
    phase,      \* which get_current_webpage_state call of run() is active
    iteration,  \* loop variable of run()
    webtext,    \* return value of get_current_webpage_state
    image,      \* self.image_part: the marker nodes visible in the screenshot
    result,     \* how the last run() ended
    lastOp,     \* history: last get_web_element_rect / del_web_element_rect call
    lastTool,   \* history: last tool call made by the model
    run,        \* history: model calls and annotator events of the current run
    filt        \* inputs and output of one application of the inclusion filter

vars == <<doc, elems, markers, rects, ret, state, config, pc, phase, iteration,
          webtext, image, result, lastOp, lastTool, run, filt>>

-----------------------------------------------------------------------------
(* Bounds of the model *)

\* marker generations (annotation passes whose nodes are still referenced)
MaxGen == 2
\* largest explicit config['max_iterations'] that is tried
MaxIter == 2
\* tool calls the model makes inside one call_llm
MaxTools == 2
\* web_element_num ranges over -MaxIdx .. MaxIdx
MaxIdx == 3

(* Program constants *)

\* config.get('max_iterations', 10)
DefaultMaxIterations == 10
\* len(label_text) < 200
MaxLabelLen == 200

-----------------------------------------------------------------------------
(* Python values *)

\* an optional value: None, or a value
None == [present |-> FALSE, val |-> <<>>]
Some(v) == [present |-> TRUE, val |-> v]
\* get_attribute("type"): None when the element has no such attribute
NoAttr == [present |-> FALSE, val |-> ""]
Attr(name) == [present |-> TRUE, val |-> name]
\* Python truthiness of an optional string or list
Truthy(o) == o.present /\ o.val # <<>>

Range(s) == {s[i] : i \in 1..Len(s)}

DigitChar == <<"0", "1", "2", "3", "4", "5", "6", "7", "8", "9">>

\* str(n) for n >= 0, as f"{web_ele_id}" computes it
RECURSIVE Digits(_)
Digits(n) == IF n < 10 THEN <<DigitChar[n + 1]>>
             ELSE Digits(n \div 10) \o <<DigitChar[(n % 10) + 1]>>

\* sub in s
Contains(sub, s) ==
    \E i \in 1..(Len(s) - Len(sub) + 1) : SubSeq(s, i, i + Len(sub) - 1) = sub

\* sep.join(parts): parts is any iterable of strings
RECURSIVE Join(_, _)
Join(sep, parts) ==
    IF parts = <<>> THEN <<>>
    ELSE IF Len(parts) = 1 THEN parts[1]
    ELSE parts[1] \o sep \o Join(sep, Tail(parts))

\* iterating a Python str yields its characters, each a str of length 1
CharsOf(s) == [i \in 1..Len(s) |-> <<s[i]>>]

Tab == <<"\t">>

-----------------------------------------------------------------------------
(* Strings that occur on the modelled pages *)

TagButton == <<"b", "u", "t", "t", "o", "n">>
TagInput == <<"i", "n", "p", "u", "t">>
TagTextarea == <<"t", "e", "x", "t", "a", "r", "e", "a">>
TagDiv == <<"d", "i", "v">>
TagA == <<"a">>

StrSend == <<"S", "e", "n", "d">>
StrHi == <<"H", "i">>
StrImgOpen == <<"<", "i", "m", "g">>
StrSrcEq == <<"s", "r", "c", "=">>
StrImgTag == StrImgOpen \o <<" ">> \o StrSrcEq \o <<"x", ">">>
StrImgOnly == StrImgOpen \o <<">">>
StrLong(n) == [i \in 1..n |-> "x"]

\* a DOM node of the page: what the label script, tag_name and get_attribute read
Node(tag, type, aria, text) ==
    [tag |-> tag, type |-> type, aria |-> aria, text |-> text]

-----------------------------------------------------------------------------
(* get_web_element_rect, lines 251-276: the line of one element, if any *)

input_attr_types == {"text", "search", "password", "email", "tel"}

UpperChars == <<"A", "B", "C", "D", "E", "F", "G", "H", "I", "J", "K", "L", "M",
                "N", "O", "P", "Q", "R", "S", "T", "U", "V", "W", "X", "Y", "Z">>
LowerChars == <<"a", "b", "c", "d", "e", "f", "g", "h", "i", "j", "k", "l", "m",
                "n", "o", "p", "q", "r", "s", "t", "u", "v", "w", "x", "y", "z">>
LowerChar(c) == IF \E i \in 1..Len(UpperChars) : UpperChars[i] = c
                THEN LowerChars[CHOOSE i \in 1..Len(UpperChars) : UpperChars[i] = c]
                ELSE c

\* str.lower()
Lower(s) == [i \in 1..Len(s) |-> LowerChar(s[i])]

Line(parts) == <<Join(<<>>, parts)>>

\* len(label_text) < 200, with the comparison off by one
ShortLabelInclusive(label_text) == Len(label_text) <= MaxLabelLen

\* len(label_text) < 200 (line 265)
ShortLabel(label_text) == Len(label_text) < MaxLabelLen

\* the lines appended to format_ele_text for items_raw[web_ele_id]
FormatElement(web_ele_id, item) ==
    LET label_text == item.text
        ele_tag_name == item.element.tag
        ele_type == item.element.type
        ele_aria_label == item.element.aria
        head == <<"[">> \o Digits(web_ele_id) \o <<"]", ":", " ">>
        tagged == head \o <<"<">> \o ele_tag_name \o <<">", " ">>
        q(s) == <<"\"">> \o s \o <<"\"">>
    IN  IF label_text = <<>>
        THEN IF \/ (Lower(ele_tag_name) = TagInput /\ ele_type.present
                        /\ ele_type.val \in input_attr_types)
                \/ Lower(ele_tag_name) = TagTextarea
                \/ (Lower(ele_tag_name) = TagButton /\ ele_type.present
                        /\ ele_type.val \in {"submit", "button"})
             THEN IF Truthy(ele_aria_label)
                  THEN Line(<<tagged, q(ele_aria_label.val), <<";">>>>)
                  ELSE Line(<<tagged, q(label_text), <<";">>>>)
             ELSE <<>>
        ELSE IF ShortLabel(label_text)
        THEN IF ~(Contains(StrImgOpen, label_text) /\ Contains(StrSrcEq, label_text))
             THEN IF ele_tag_name \in {TagButton, TagInput, TagTextarea}
                  THEN IF Truthy(ele_aria_label) /\ ele_aria_label.val # label_text
                       THEN Line(<<tagged, q(label_text), <<",", " ">>,
                                   q(ele_aria_label.val), <<";">>>>)
                       ELSE Line(<<tagged, q(label_text), <<";">>>>)
                  ELSE IF Truthy(ele_aria_label) /\ ele_aria_label.val # label_text
                       THEN Line(<<head, q(label_text), <<",", " ">>,
                                   q(ele_aria_label.val), <<";">>>>)
                       ELSE Line(<<head, q(label_text), <<";">>>>)
             ELSE <<>>
        ELSE <<>>

\* range(len(items_raw)) shifted by one
ElementIdsFromOne(items_raw) == [i \in 1..Len(items_raw) |-> i]

\* range(len(items_raw)) (line 251)
ElementIds(items_raw) == [i \in 1..Len(items_raw) |-> i - 1]

\* the list format_ele_text when the loop of lines 251-276 ends
RECURSIVE FormatFrom(_, _)
FormatFrom(items_raw, k) ==
    IF k > Len(items_raw) THEN <<>>
    ELSE FormatElement(ElementIds(items_raw)[k], items_raw[k])
             \o FormatFrom(items_raw, k + 1)

FormatLines(items_raw) == FormatFrom(items_raw, 1)

-----------------------------------------------------------------------------
(* The page and the in-page label script *)

NodeSearch == Node(TagInput, Attr("text"), None, <<>>)
NodeSend == Node(TagButton, Attr("submit"), Some(StrSend), <<>>)
NodeIcon == Node(TagDiv, NoAttr, Some(StrSend), <<>>)
NodeHi == Node(TagA, NoAttr, None, StrHi)

\* the pages a navigation can load
Pages == {<<>>, <<NodeIcon, NodeSend>>, <<NodeSearch, NodeIcon, NodeHi>>}

DocIds == 1..4
Gens == 1..MaxGen

NoRects == [has |-> FALSE, val |-> <<>>]
NoRet == [ok |-> FALSE, rects |-> <<>>, elems |-> <<>>, text |-> <<>>]

\* generations whose marker nodes are attached or still referenced
UsedGens == {m[1] : m \in markers \cup Range(rects.val) \cup Range(ret.rects)}
FreshGen == CHOOSE g \in Gens \ UsedGens : \A h \in Gens \ UsedGens : g <= h

\* documents that are loaded or still referenced by an element handle
UsedDocs == {doc} \cup {h.doc : h \in Range(state.web_elements.val) \cup Range(ret.elems)}
FreshDoc == CHOOSE d \in DocIds \ UsedDocs : \A e \in DocIds \ UsedDocs : d <= e

\* label_script.txt: one marker node per interactive element, appended to
\* document.body, and one item {text, element} per element, in DOM order
LabelScript(gen) ==
    [rects |-> [i \in 1..Len(elems) |-> <<gen, i - 1>>],
     items |-> [i \in 1..Len(elems) |->
                  [text |-> elems[i].text,
                   element |-> [handle |-> [doc |-> doc, idx |-> i - 1],
                                tag |-> elems[i].tag,
                                type |-> elems[i].type,
                                aria |-> elems[i].aria]]]]

-----------------------------------------------------------------------------
(* get_web_element_rect and del_web_element_rect *)

\* self.rects = rects (line 282)
TrackRects(new_rects) == [has |-> TRUE, val |-> new_rects]

\* history of one call: what it did to the page and to self.rects
OpRecord(op, outcome, ok, script) ==
    [op |-> op, outcome |-> outcome, ok |-> ok, script |-> script,
     afterOkDel |-> lastOp.op = "del" /\ lastOp.ok,
     detached |-> \E k \in 1..Len(rects.val) : rects.val[k] \notin markers,
     leftTracked |-> Range(rects.val) \cap markers' # {},
     changed |-> markers' # markers \/ rects' # rects]

\* outcome: "ok", "script_error" (execute_script raises and draws nothing) or
\* "attr_error" (tag_name / get_attribute raises on an element of the loop)
GetWebElementRect(outcome) ==
    LET out == LabelScript(FreshGen)
    IN  /\ \/ /\ outcome = "script_error"
              /\ ret' = NoRet
              /\ UNCHANGED <<markers, rects>>
           \/ /\ outcome = "attr_error"
              /\ Gens \ UsedGens # {}
              /\ out.items # <<>>
              /\ markers' = markers \cup Range(out.rects)
              /\ ret' = NoRet
              /\ UNCHANGED rects
           \/ /\ outcome = "ok"
              /\ Gens \ UsedGens # {}
              /\ markers' = markers \cup Range(out.rects)
              /\ rects' = TrackRects(out.rects)
              /\ ret' = [ok |-> TRUE,
                         rects |-> out.rects,
                         elems |-> [i \in 1..Len(out.items) |-> out.items[i].element.handle],
                         text |-> Join(Tab, FormatLines(out.items))]
        /\ lastOp' = OpRecord("annotate", outcome, outcome = "ok", TRUE)

\* the first position of self.rects whose node is not a child of document.body
FirstDetached == CHOOSE k \in 1..Len(rects.val) :
                     /\ rects.val[k] \notin markers
                     /\ \A j \in 1..(k - 1) : rects.val[j] \in markers
AllAttached == \A k \in 1..Len(rects.val) : rects.val[k] \in markers

\* del self.rects (line 300), left out
ForgetRectsNever == rects

\* del self.rects (line 300)
ForgetRects == NoRects

\* outcome: "run" (the script of lines 294-298 is executed), "script_error"
\* (execute_script raises before the script runs) or "stale_arg" (the driver
\* rejects a detached node among the arguments before the script runs)
DelWebElementRect(outcome) ==
    IF ~rects.has
    THEN /\ outcome = "run"
         /\ UNCHANGED <<markers, rects>>
         /\ lastOp' = OpRecord("del", outcome, TRUE, FALSE)
    ELSE \/ /\ outcome = "script_error"
            /\ UNCHANGED <<markers, rects>>
            /\ lastOp' = OpRecord("del", outcome, FALSE, TRUE)
         \/ /\ outcome = "stale_arg"
            /\ ~AllAttached
            /\ UNCHANGED <<markers, rects>>
            /\ lastOp' = OpRecord("del", outcome, FALSE, TRUE)
         \/ /\ outcome = "run"
            /\ ~AllAttached
            \* removeChild throws on the first detached node: the loop stops there
            /\ markers' = markers \ {rects.val[j] : j \in 1..(FirstDetached - 1)}
            /\ UNCHANGED rects
            /\ lastOp' = OpRecord("del", outcome, FALSE, TRUE)
         \/ /\ outcome = "run"
            /\ AllAttached
            /\ markers' = markers \ Range(rects.val)
            /\ rects' = ForgetRects
            /\ lastOp' = OpRecord("del", outcome, TRUE, TRUE)

AnnotateOutcomes == {"ok", "script_error", "attr_error"}
DelOutcomes == {"run", "script_error", "stale_arg"}

-----------------------------------------------------------------------------
(* run and get_current_webpage_state *)

Queries == {<<"q">>}
Answers == {<<>>, <<"o", "k">>}

\* self.config.get('max_iterations', 10)
MaxIterations == IF config.max_iterations.present
                 THEN config.max_iterations.val
                 ELSE DefaultMaxIterations

Raised == [kind |-> "raised", val |-> <<>>]
Unable == [kind |-> "unable", val |-> <<>>]
Returned(answer) == [kind |-> "answer", val |-> answer]

\* a direct call of get_web_element_rect by the owner of the agent
DirectAnnotate ==
    /\ pc = "idle"
    /\ \E outcome \in AnnotateOutcomes : GetWebElementRect(outcome)
    /\ UNCHANGED <<doc, elems, state, config, pc, phase, iteration, webtext, image,
                   result, lastTool, run, filt>>

\* a direct call of del_web_element_rect by the owner of the agent
DirectDel ==
    /\ pc = "idle"
    /\ \E outcome \in DelOutcomes : DelWebElementRect(outcome)
    /\ UNCHANGED <<doc, elems, ret, state, config, pc, phase, iteration, webtext,
                   image, result, lastTool, run, filt>>

\* run, line 87, up to the first get_current_webpage_state
RunStart ==
    /\ pc = "idle"
    /\ \E q \in Queries : state' = [state EXCEPT !.user_task = Some(q)]
    /\ pc' = "obs_annotate"
    /\ phase' = "first"
    /\ iteration' = 0
    /\ result' = [kind |-> "running", val |-> <<>>]
    /\ run' = [calls |-> 0, tools |-> 0, event |-> "start", answered |-> None]
    /\ UNCHANGED <<doc, elems, markers, rects, ret, config, webtext, image,
                   lastOp, lastTool, filt>>

NoClick == [clicked |-> FALSE, navigated |-> FALSE]

\* history of one tool call; NoTool outside call_llm
NoTool == [tool |-> "none", arg |-> 0, nElems |-> 0, error |-> "",
           clicked |-> FALSE, navigated |-> FALSE, onMarkers |-> FALSE]

\* run returns or raises: its local variables are gone
RunEnds(how) ==
    /\ pc' = "idle"
    /\ result' = how
    /\ phase' = "none"
    /\ iteration' = 0
    /\ webtext' = None

\* get_current_webpage_state, line 160
ObsAnnotate ==
    /\ pc = "obs_annotate"
    /\ \E outcome \in AnnotateOutcomes :
          /\ GetWebElementRect(outcome)
          /\ IF outcome = "ok"
             THEN pc' = "obs_shot" /\ UNCHANGED <<result, phase, iteration, webtext>>
             ELSE RunEnds(Raised)
    /\ run' = [run EXCEPT !.event = "annotate"]
    /\ UNCHANGED <<doc, elems, state, config, image, lastTool, filt>>

\* get_current_webpage_state, lines 163-175
ObsShot ==
    /\ pc = "obs_shot"
    /\ image' = [taken |-> TRUE, nodes |-> markers]
    /\ state' = [state EXCEPT !.web_elements = Some(ret.elems),
                              !.formatted_ele_text = Some(ret.text)]
    /\ run' = [run EXCEPT !.event = "screenshot"]
    /\ pc' = "obs_del"
    /\ UNCHANGED <<doc, elems, markers, rects, ret, config, phase, iteration,
                   webtext, result, lastOp, lastTool, filt>>

\* what the join returns when element_text is the list of lines that
\* get_web_element_rect has already joined: the formatted text itself
ReturnedTextOfLines(element_text) == element_text

\* "\t".join(element_text) (line 180): element_text is the str returned by
\* get_web_element_rect, so the join runs over its characters
ReturnedText(element_text) == Join(Tab, CharsOf(element_text))

\* get_current_webpage_state, lines 178-180, and run up to the next call_llm
ObsDel ==
    /\ pc = "obs_del"
    /\ \E outcome \in DelOutcomes : DelWebElementRect(outcome)
    /\ run' = [run EXCEPT !.event = "clear"]
    /\ ret' = NoRet
    /\ IF ~lastOp'.ok
       THEN RunEnds(Raised) /\ UNCHANGED state
       ELSE IF phase = "first"
       THEN \* lines 102-106
            /\ state' = [state EXCEPT !.final_answer = None, !.action_taken = None]
            /\ IF 0 < MaxIterations
               THEN /\ pc' = "call_llm"
                    /\ iteration' = 0
                    /\ webtext' = Some(ReturnedText(ret.text))
                    /\ UNCHANGED <<result, phase>>
               ELSE RunEnds(Unable)
       ELSE \* lines 121-128
            /\ UNCHANGED state
            /\ IF iteration + 1 < MaxIterations
               THEN /\ pc' = "call_llm"
                    /\ iteration' = iteration + 1
                    /\ webtext' = Some(ReturnedText(ret.text))
                    /\ UNCHANGED <<result, phase>>
               ELSE RunEnds(Unable)
    /\ UNCHANGED <<doc, elems, config, image, lastTool, filt>>

\* run, line 108: call_llm hands the parts to the model
CallLlm ==
    /\ pc = "call_llm"
    /\ pc' = "llm"
    /\ run' = [run EXCEPT !.calls = run.calls + 1, !.tools = 0, !.answered = None]
    /\ UNCHANGED <<doc, elems, markers, rects, ret, state, config, phase, iteration,
                   webtext, image, result, lastOp, lastTool, filt>>

\* the test "final_answer is not None", which an empty answer passes
HasAnswerNotNone(final_answer) == final_answer.present

\* if final_answer (line 112)
HasAnswer(final_answer) == Truthy(final_answer)

\* run, lines 108-113: call_llm returns and the final answer is looked up
LlmReturn ==
    /\ pc = "llm"
    /\ IF HasAnswer(state.final_answer)
       THEN RunEnds(Returned(state.final_answer.val))
       ELSE /\ pc' = "obs_annotate"
            /\ phase' = "loop"
            /\ UNCHANGED <<result, iteration, webtext>>
    /\ lastTool' = NoTool
    /\ UNCHANGED <<doc, elems, markers, rects, ret, state, config, image, lastOp,
                   run, filt>>

-----------------------------------------------------------------------------
(* The tools the model calls during call_llm *)

ToolRecord(tool, arg, n, error, click) ==
    [tool |-> tool, arg |-> arg, nElems |-> n, error |-> error,
     clicked |-> click.clicked, navigated |-> click.navigated,
     onMarkers |-> markers # {}]

\* tool_answer_user_query
ToolAnswer ==
    /\ pc = "llm"
    /\ run.tools < MaxTools
    /\ \E answer \in Answers :
          /\ state' = [state EXCEPT !.final_answer = Some(answer)]
          /\ run' = [run EXCEPT !.tools = run.tools + 1, !.answered = Some(answer)]
    /\ lastTool' = ToolRecord("answer", 0, 0, "", NoClick)
    /\ UNCHANGED <<doc, elems, markers, rects, ret, config, pc, phase, iteration,
                   webtext, image, result, lastOp, filt>>

\* tool_wait
ToolWait ==
    /\ pc = "llm"
    /\ run.tools < MaxTools
    /\ run' = [run EXCEPT !.tools = run.tools + 1]
    /\ lastTool' = ToolRecord("wait", 0, 0, "", NoClick)
    /\ UNCHANGED <<doc, elems, markers, rects, ret, state, config, pc, phase,
                   iteration, webtext, image, result, lastOp, filt>>

\* the range test with the lower bound checked as well
OutOfRangeChecked(web_elements, web_element_num) ==
    \/ ~Truthy(web_elements)
    \/ web_element_num < 0
    \/ web_element_num >= Len(web_elements.val)

\* not web_elements or web_element_num >= len(web_elements) (line 48)
OutOfRange(web_elements, web_element_num) ==
    \/ ~Truthy(web_elements)
    \/ web_element_num >= Len(web_elements.val)

\* tool_click_web_element
ToolClick ==
    /\ pc = "llm"
    /\ run.tools < MaxTools
    /\ run' = [run EXCEPT !.tools = run.tools + 1]
    /\ \E web_element_num \in (-MaxIdx)..MaxIdx :
        LET web_elements == state.web_elements
            n == Len(web_elements.val)
            \* Python list indexing: a negative index counts from the end
            pos == IF web_element_num < 0 THEN n + web_element_num + 1
                   ELSE web_element_num + 1
            rec(error, click) == ToolRecord("click", web_element_num, n, error, click)
        IN  IF ~state.webdriver
            THEN /\ lastTool' = rec("No browser instance found in tool context.", NoClick)
                 /\ UNCHANGED <<doc, elems, markers>>
            ELSE IF OutOfRange(web_elements, web_element_num)
            THEN /\ lastTool' = rec("Web element number is out of range.", NoClick)
                 /\ UNCHANGED <<doc, elems, markers>>
            ELSE IF pos < 1
            THEN \* IndexError, caught at line 55
                 /\ lastTool' = rec("list index out of range", NoClick)
                 /\ UNCHANGED <<doc, elems, markers>>
            ELSE IF web_elements.val[pos].doc # doc
            THEN \* the handle belongs to a document that was replaced
                 /\ lastTool' = rec("stale element reference", NoClick)
                 /\ UNCHANGED <<doc, elems, markers>>
            ELSE \/ /\ lastTool' = rec("", [clicked |-> TRUE, navigated |-> FALSE])
                    /\ UNCHANGED <<doc, elems, markers>>
                 \/ \* the click loads another document
                    /\ lastTool' = rec("", [clicked |-> TRUE, navigated |-> TRUE])
                    /\ doc' = FreshDoc
                    /\ elems' \in Pages
                    /\ markers' = {}
    /\ UNCHANGED <<rects, ret, state, config, pc, phase, iteration, webtext, image,
                   result, lastOp, filt>>

-----------------------------------------------------------------------------
(* The page *)

\* driver.get(url): the owner of the browser loads another document
LoadPage ==
    /\ pc = "idle"
    /\ doc' = FreshDoc
    /\ elems' \in Pages
    /\ markers' = {}
    /\ UNCHANGED <<rects, ret, state, config, pc, phase, iteration, webtext, image,
                   result, lastOp, lastTool, run, filt>>

\* a script of the page detaches a marker node that the agent still tracks
ExternalRemove ==
    /\ \E m \in markers \cap Range(rects.val) : markers' = markers \ {m}
    /\ UNCHANGED <<doc, elems, rects, ret, state, config, pc, phase, iteration,
                   webtext, image, result, lastOp, lastTool, run, filt>>

-----------------------------------------------------------------------------
(* The inclusion filter applied to one element *)

FilterTags == {TagButton, TagInput, TagTextarea, TagDiv, TagA}
FilterTypes == {NoAttr} \cup {Attr(t) : t \in input_attr_types
                                \cup {"submit", "button", "reset", "checkbox"}}
FilterArias == {None, Some(<<>>), Some(StrSend), Some(StrHi)}
FilterTexts == {<<>>, StrSend, <<" ">>, StrImgTag, StrImgOnly,
                StrLong(MaxLabelLen - 1), StrLong(MaxLabelLen), StrLong(MaxLabelLen + 1)}
FilterIds == {0, 7, 12}

FilterItem(tag, type, aria, text) ==
    [text |-> text,
     element |-> [handle |-> [doc |-> 1, idx |-> 0], tag |-> tag, type |-> type,
                  aria |-> aria]]

FilterIdle == [done |-> TRUE, id |-> 0,
               item |-> FilterItem(TagDiv, NoAttr, None, <<>>), out |-> <<>>]

FilterApply ==
    /\ ~filt.done
    /\ filt' = [filt EXCEPT !.done = TRUE, !.out = FormatElement(filt.id, filt.item)]
    /\ UNCHANGED <<doc, elems, markers, rects, ret, state, config, pc, phase,
                   iteration, webtext, image, result, lastOp, lastTool, run>>

-----------------------------------------------------------------------------
(* Specifications *)

\* the agent after WebsiteInteractionAgent.create, on a loaded page
InitAgent ==
    /\ doc = 1
    /\ elems \in Pages
    /\ markers = {}
    /\ rects = NoRects
    /\ ret = NoRet
    /\ state = [webdriver |-> TRUE, user_task |-> None, web_elements |-> None,
                formatted_ele_text |-> None, final_answer |-> None,
                action_taken |-> None]
    /\ config \in [max_iterations : {None} \cup {Some(n) : n \in 0..MaxIter}]
    /\ pc = "idle"
    /\ phase = "none"
    /\ iteration = 0
    /\ webtext = None
    /\ image = [taken |-> FALSE, nodes |-> {}]
    /\ result = [kind |-> "none", val |-> <<>>]
    /\ lastOp = [op |-> "none", outcome |-> "", ok |-> TRUE, script |-> FALSE, afterOkDel |-> FALSE,
                 detached |-> FALSE, leftTracked |-> FALSE, changed |-> FALSE]
    /\ lastTool = NoTool
    /\ run = [calls |-> 0, tools |-> 0, event |-> "start", answered |-> None]

Init == InitAgent /\ filt = FilterIdle

\* run, the tools the model calls, and the page
Next ==
    \/ RunStart \/ ObsAnnotate \/ ObsShot \/ ObsDel \/ CallLlm \/ LlmReturn
    \/ ToolAnswer \/ ToolWait \/ ToolClick
    \/ ExternalRemove

\* the agent driven by run, the only caller of the annotator in the repository
Spec == Init /\ [][Next]_vars

InitAnnotator == Init /\ ~config.max_iterations.present

NextAnnotator == DirectAnnotate \/ DirectDel \/ LoadPage \/ ExternalRemove

\* the two annotator methods called directly, in any order
SpecAnnotator == InitAnnotator /\ [][NextAnnotator]_vars

InitFilter ==
    /\ InitAgent
    /\ elems = <<>>
    /\ ~config.max_iterations.present
    /\ \E tag \in FilterTags, type \in FilterTypes, aria \in FilterArias,
          text \in FilterTexts, id \in FilterIds :
          filt = [done |-> FALSE, id |-> id, item |-> FilterItem(tag, type, aria, text),
                  out |-> <<>>]

\* the inclusion filter on one element record
SpecFilter == InitFilter /\ [][FilterApply]_vars

-----------------------------------------------------------------------------
(* Reading a formatted text back *)

IsDigit(c) == \E d \in 1..10 : DigitChar[d] = c
DigitValue(c) == (CHOOSE d \in 1..10 : DigitChar[d] = c) - 1

\* int(digits) for a non-empty string of decimal digits
RECURSIVE ParseInt(_)
ParseInt(digits) ==
    IF Len(digits) = 1 THEN DigitValue(digits[1])
    ELSE 10 * ParseInt(SubSeq(digits, 1, Len(digits) - 1))
             + DigitValue(digits[Len(digits)])

\* text[i] = "[", then one or more digits, then "]" at position j
BracketAt(text, i, j) ==
    /\ text[i] = "["
    /\ j > i + 1
    /\ text[j] = "]"
    /\ \A k \in (i + 1)..(j - 1) : IsDigit(text[k])

\* the numbers that appear as [number] in text, in order of appearance
RECURSIVE BracketIndicesFrom(_, _)
BracketIndicesFrom(text, i) ==
    IF i > Len(text) THEN <<>>
    ELSE IF \E j \in (i + 2)..Len(text) : BracketAt(text, i, j)
    THEN LET j == CHOOSE j \in (i + 2)..Len(text) : BracketAt(text, i, j)
         IN  <<ParseInt(SubSeq(text, i + 1, j - 1))>> \o BracketIndicesFrom(text, j + 1)
    ELSE BracketIndicesFrom(text, i + 1)

BracketIndices(text) == BracketIndicesFrom(text, 1)

-----------------------------------------------------------------------------
(* Claims *)

\* C1: in every reachable state the marker nodes on the page are either none
\* or exactly the tracked self.rects of the most recent annotation pass.
C1_MarkersEmptyOrTracked ==
    markers = {} \/ (rects.has /\ markers = Range(rects.val))

\* C2: when del_web_element_rect runs its script over a tracked list of which
\* a node was already detached, the call succeeds, no tracked node is left on
\* the page and self.rects is discarded.
C2_DelSkipsDetached ==
    (lastOp.op = "del" /\ lastOp.outcome = "run" /\ lastOp.detached)
        => (lastOp.ok /\ ~lastOp.leftTracked /\ ~rects.has)

\* C3: a get_web_element_rect call that fails leaves the page's markers and
\* the tracked list as they were before the call.
C3_FailedAnnotateLeavesNoMarker ==
    (lastOp.op = "annotate" /\ ~lastOp.ok) => ~lastOp.changed

\* C4: after a successful del_web_element_rect self.rects is absent, and a
\* del_web_element_rect call that follows a successful one with no
\* get_web_element_rect in between runs no script and changes nothing.
C4_DelIdempotent ==
    /\ (lastOp.op = "del" /\ lastOp.ok) => ~rects.has
    /\ (lastOp.op = "del" /\ lastOp.afterOkDel)
           => (lastOp.ok /\ ~lastOp.script /\ ~lastOp.changed)

\* C4 witness: a second del right after a del that removed a drawn pass.
C4_Witness ==
    /\ lastOp.op = "del" /\ lastOp.afterOkDel /\ ~lastOp.script
    /\ ret.ok /\ ret.rects # <<>> /\ markers = {}

OutOfRangeErrors == {"Web element number is out of range.", "list index out of range"}

\* C5: a click with an index that is no position of the stored web_elements
\* (negative, or >= its length, or no list) returns an out-of-range error and
\* clicks nothing.
C5_BadIndexNeverClicks ==
    (lastTool.tool = "click" /\ (lastTool.arg < 0 \/ lastTool.arg >= lastTool.nElems))
        => (lastTool.error \in OutOfRangeErrors /\ ~lastTool.clicked
                /\ ~lastTool.navigated)

StrictlyAscending(seq) == \A i \in 1..(Len(seq) - 1) : seq[i] < seq[i + 1]

\* C6: a pass returns as many markers as element handles, and the [index]
\* numbers of its formatted text are positions of the handle list, strictly
\* ascending.
C6_IndicesValid ==
    ret.ok => /\ Len(ret.rects) = Len(ret.elems)
              /\ \A i \in 1..Len(BracketIndices(ret.text)) :
                     BracketIndices(ret.text)[i] \in 0..(Len(ret.elems) - 1)
              /\ StrictlyAscending(BracketIndices(ret.text))

\* C6 witness: a pass whose text names two indices with a gap between them.
C6_Witness ==
    ret.ok /\ BracketIndices(ret.text) = <<0, 2>> /\ Len(ret.elems) = 3

Quoted(s) == <<"\"">> \o s \o <<"\"">>
ControlTags == {TagButton, TagInput, TagTextarea}
LooksLikeImage(text) == Contains(StrImgOpen, text) /\ Contains(StrSrcEq, text)
HasAria(item) == item.element.aria.present /\ item.element.aria.val # <<>>

\* the Inclusion Filter: whether the element appears in the formatted text
FilterIncludes(item) ==
    IF item.text = <<>>
    THEN \/ /\ item.element.tag = TagInput
            /\ item.element.type \in {Attr(t) : t \in {"text", "search", "password",
                                                       "email", "tel"}}
         \/ item.element.tag = TagTextarea
         \/ /\ item.element.tag = TagButton
            /\ item.element.type \in {Attr("submit"), Attr("button")}
    ELSE Len(item.text) < 200 /\ ~LooksLikeImage(item.text)

\* the Inclusion Filter: the quoted labels of an included element
FilterLabels(item) ==
    IF item.text = <<>>
    THEN <<Quoted(IF HasAria(item) THEN item.element.aria.val ELSE <<>>)>>
    ELSE <<Quoted(item.text)>>
             \o (IF HasAria(item) /\ item.element.aria.val # item.text
                 THEN <<Quoted(item.element.aria.val)>> ELSE <<>>)

\* the Inclusion Filter: the line of an included element
FilterLine(id, item) ==
    <<"[">> \o Digits(id) \o <<"]", ":", " ">>
        \o (IF item.element.tag \in ControlTags
            THEN <<"<">> \o item.element.tag \o <<">", " ">> ELSE <<>>)
        \o Join(<<",", " ">>, FilterLabels(item)) \o <<";">>

\* C7: for every element record the filter of get_web_element_rect includes
\* the element exactly when the Inclusion Filter does, and emits exactly the
\* line the Inclusion Filter states.
C7_FilterAsStated ==
    filt.done => filt.out = (IF FilterIncludes(filt.item)
                             THEN <<FilterLine(filt.id, filt.item)>> ELSE <<>>)

\* C7 witness: a text of 199 characters is included, under a two-digit index.
C7_Witness ==
    /\ filt.done /\ filt.id = 12 /\ Len(filt.item.text) = MaxLabelLen - 1
    /\ filt.item.element.tag = TagButton /\ filt.item.element.aria = Some(StrSend)
    /\ Len(filt.out) = 1

ObservationOrder ==
    /\ pc = "obs_annotate" => run.event \in {"start", "clear"}
    /\ pc = "obs_shot" => (run.event = "annotate" /\ lastOp.op = "annotate" /\ lastOp.ok)
    /\ pc = "obs_del" => (run.event = "screenshot" /\ image.taken)
    /\ pc \in {"call_llm", "llm"} => (run.event = "clear" /\ lastOp.op = "del" /\ lastOp.ok)

\* C8: in every observation the markers are drawn, then the screenshot is
\* taken, then the markers are cleared; annotate and clear alternate within a
\* run; and no model call or click happens while a marker is on the page.
C8_ObserveThenClear ==
    /\ ObservationOrder
    /\ pc = "llm" => markers = {}
    /\ lastTool.clicked => ~lastTool.onMarkers

\* C9: run makes at most max_iterations model calls; when a model call
\* recorded a final answer, run returns that answer right after the call;
\* when it returns the 'Unable' message, max_iterations calls were made; an
\* answer it returns was recorded during its own last model call.
C9_BoundedWithEarlyExit ==
    /\ run.calls <= MaxIterations
    /\ pc \in {"obs_annotate", "obs_shot", "obs_del", "call_llm"}
           => ~run.answered.present
    /\ result.kind = "answer" => (run.answered.present /\ result.val = run.answered.val)
    /\ result.kind = "unable" => (run.calls = MaxIterations /\ ~run.answered.present)

\* C10: the text get_current_webpage_state returns is the formatted text of
\* the same pass.
C10_ReturnedTextIsFormattedText ==
    (pc \in {"call_llm", "llm"} /\ webtext.present)
        => webtext.val = state.formatted_ele_text.val

====
